---- MODULE Spec2Model ----
(***************************************************************************)
(* A model of the RN ML Kit pose detection demo: the JavaScript frame      *)
(* processor that draws the skeleton, the detectPose bridge, the Android   *)
(* and iOS frame processor plugins, and the screen that mounts the camera. *)
(*                                                                         *)
(* Five specifications share the variables:                                *)
(*   Spec         the per-frame pipeline (worklet -> detectPose -> native)  *)
(*   DetectSpec   detectPose alone, with and without options               *)
(*   IosSpec      the iOS callback in its two sources                      *)
(*   ScreenSpec   permission, device and camera position of the screen     *)
(*   AndroidSpec  overlapping invocations of the busy-flag Android plugin  *)
(***************************************************************************)
EXTENDS Integers, Sequences, FiniteSets, TLC

(***************************************************************************)
(* State.                                                                  *)
(***************************************************************************)
VARIABLES
  phase,         \* "idle": between frames; "done": a frame (or call) has just been handled
  plugin,        \* the module constant of poseDetector: None or Some(native plugin)
  givenOptions,  \* the options argument the last detectPose call was given (None: none)
  frameLib,       \* what the frame and the vision library gave the last call
  lastDetect,       \* what the last detectPose call did
  framePoses,     \* the worklet's poses of the last frame (None: not reached, or null)
  drawn,         \* the draw calls the last frame completed
  fault,         \* what threw inside the last frame's try block ("none": nothing)
  warned,        \* the last frame logged console.warn
  escaped,       \* an exception left the frame processor callback
  isProcessing,  \* the busy flag of the Android plugin
  iosDetectorMode, \* options.detectorMode of the iOS plugin that reads its arguments
  pc,            \* AndroidSpec: where each invocation of callback stands
  held,          \* AndroidSpec: the invocation set isProcessing and has not cleared it
  pending,       \* AndroidSpec: the result an invocation will leave with
  returned,      \* AndroidSpec: what each thread's last invocation returned or threw
  started,       \* AndroidSpec: invocations started
  screen,        \* which PoseDetectionScreen source is built
  devices,       \* the camera positions the phone has a device for
  status,        \* camera permission status
  isLoading,     \* a permission request is in flight
  position,      \* useState<CameraPosition>("back")
  flips          \* flipCamera calls so far


(***************************************************************************)
(* Bounds of the model.                                                    *)
(***************************************************************************)
\* library coordinates are shifted by 0..MaxShift between frames
MaxShift == 1
\* a draw call may fail among the first MaxFailAt calls of a frame (or at the last)
MaxFailAt == 2
\* flipCamera presses counted per behaviour
MaxFlips == 8
\* callback invocations started per behaviour in AndroidSpec
MaxCalls == 3

(***************************************************************************)
(* Optional values: JavaScript null/undefined, Kotlin null, Swift nil.     *)
(***************************************************************************)
None == <<>>

Some(v) == <<v>>

NonNull(o) == Len(o) = 1

(***************************************************************************)
(* The skeleton connection table.                                          *)
(***************************************************************************)
StrokeWidth == 8

CircleRadius == 8

Conn(a, b, c) == [points |-> <<a, b>>, color |-> c, width |-> StrokeWidth]

PoseConnections ==
  << Conn("leftEar", "leftEyeOuter", "purple"),
     Conn("leftEyeOuter", "leftEye", "purple"),
     Conn("leftEye", "leftEyeInner", "purple"),
     Conn("leftEyeInner", "nose", "purple"),
     Conn("nose", "rightEyeInner", "purple"),
     Conn("rightEyeInner", "rightEye", "purple"),
     Conn("rightEye", "rightEyeOuter", "purple"),
     Conn("rightEyeOuter", "rightEar", "purple"),
     Conn("leftMouth", "rightMouth", "purple"),
     Conn("leftShoulder", "rightShoulder", "red"),
     Conn("leftShoulder", "leftElbow", "orange"),
     Conn("rightShoulder", "rightElbow", "orange"),
     Conn("leftElbow", "leftWrist", "yellow"),
     Conn("rightElbow", "rightWrist", "yellow"),
     Conn("leftWrist", "leftThumb", "lime"),
     Conn("leftWrist", "leftIndex", "lime"),
     Conn("leftWrist", "leftPinky", "lime"),
     Conn("rightWrist", "rightThumb", "lime"),
     Conn("rightWrist", "rightIndex", "lime"),
     Conn("rightWrist", "rightPinky", "lime"),
     Conn("leftShoulder", "leftHip", "cyan"),
     Conn("rightShoulder", "rightHip", "cyan"),
     Conn("leftHip", "rightHip", "blue"),
     Conn("leftHip", "leftKnee", "magenta"),
     Conn("rightHip", "rightKnee", "magenta"),
     Conn("leftKnee", "leftAnkle", "pink"),
     Conn("rightKnee", "rightAnkle", "pink"),
     Conn("leftAnkle", "leftHeel", "brown"),
     Conn("leftHeel", "leftFootIndex", "brown"),
     Conn("rightAnkle", "rightHeel", "brown"),
     Conn("rightHeel", "rightFootIndex", "brown") >>

(***************************************************************************)
(* The landmarks of each native plugin, in the order the code visits them. *)
(* Android: <<PoseLandmark constant, key of the returned map>>.            *)
(***************************************************************************)
AndroidLandmarks ==
  << <<"LEFT_SHOULDER", "leftShoulder">>, <<"RIGHT_SHOULDER", "rightShoulder">>,
     <<"LEFT_ELBOW", "leftElbow">>, <<"RIGHT_ELBOW", "rightElbow">>,
     <<"LEFT_WRIST", "leftWrist">>, <<"RIGHT_WRIST", "rightWrist">>,
     <<"LEFT_HIP", "leftHip">>, <<"RIGHT_HIP", "rightHip">>,
     <<"LEFT_KNEE", "leftKnee">>, <<"RIGHT_KNEE", "rightKnee">>,
     <<"LEFT_ANKLE", "leftAnkle">>, <<"RIGHT_ANKLE", "rightAnkle">>,
     <<"LEFT_PINKY", "leftPinky">>, <<"RIGHT_PINKY", "rightPinky">>,
     <<"LEFT_INDEX", "leftIndex">>, <<"RIGHT_INDEX", "rightIndex">>,
     <<"LEFT_THUMB", "leftThumb">>, <<"RIGHT_THUMB", "rightThumb">>,
     <<"LEFT_HEEL", "leftHeel">>, <<"RIGHT_HEEL", "rightHeel">>,
     <<"LEFT_FOOT_INDEX", "leftFootIndex">>, <<"RIGHT_FOOT_INDEX", "rightFootIndex">>,
     <<"NOSE", "nose">>,
     <<"LEFT_EYE_INNER", "leftEyeInner">>, <<"LEFT_EYE", "leftEye">>,
     <<"LEFT_EYE_OUTER", "leftEyeOuter">>,
     <<"RIGHT_EYE_INNER", "rightEyeInner">>, <<"RIGHT_EYE", "rightEye">>,
     <<"RIGHT_EYE_OUTER", "rightEyeOuter">>,
     <<"LEFT_EAR", "leftEar">>, <<"RIGHT_EAR", "rightEar">>,
     <<"LEFT_MOUTH", "leftMouth">>, <<"RIGHT_MOUTH", "rightMouth">> >>

\* iOS: the cases of PoseLandmarkWrapper; description is the case's own name.
PoseLandmarkWrapper ==
  << "nose", "leftEyeInner", "leftEye", "leftEyeOuter",
     "rightEyeInner", "rightEye", "rightEyeOuter",
     "leftEar", "rightEar",
     "leftShoulder", "rightShoulder",
     "leftElbow", "rightElbow",
     "leftWrist", "rightWrist",
     "leftPinkyFinger", "rightPinkyFinger",
     "leftIndexFinger", "rightIndexFinger",
     "leftThumb", "rightThumb",
     "leftHip", "rightHip",
     "leftKnee", "rightKnee",
     "leftAnkle", "rightAnkle",
     "leftHeel", "rightHeel",
     "leftToe", "rightToe" >>

Range(s) == {s[i] : i \in 1..Len(s)}

AndroidTypes == {AndroidLandmarks[i][1] : i \in 1..Len(AndroidLandmarks)}

IosTypes == Range(PoseLandmarkWrapper)

(***************************************************************************)
(* Landmark dictionaries: a sequence of entries [key, point] with distinct *)
(* keys, in insertion order.  A point is a record whose fields are among   *)
(* x and y; a coordinate that is null or undefined is an absent field.     *)
(***************************************************************************)
Keys(d) == {d[i].key : i \in 1..Len(d)}

\* poses[name]: the point stored under name, or undefined
Get(d, name) ==
  IF name \in Keys(d)
    THEN Some(d[CHOOSE i \in 1..Len(d) : d[i].key = name].point)
    ELSE None

\* map[name] = point (the last write to a key wins)
Put(d, name, point) ==
  IF name \in Keys(d)
    THEN [i \in 1..Len(d) |->
            IF d[i].key = name THEN [key |-> name, point |-> point] ELSE d[i]]
    ELSE Append(d, [key |-> name, point |-> point])

\* point?.x != null, point?.y != null
HasCoord(optPoint, f) == NonNull(optPoint) /\ f \in DOMAIN optPoint[1]

(***************************************************************************)
(* The Android plugins.  lib is what the frame and ML Kit give one         *)
(* invocation: fail names the step that throws ("none" when none does),    *)
(* supplied the landmark types pose.getPoseLandmark returns non-null, and  *)
(* shift moves the positions.                                              *)
(***************************************************************************)
IndexOf(s, v) == CHOOSE i \in 1..Len(s) : s[i] = v

AndroidPosition(i, shift) == [x |-> i + shift, y |-> 2 * i + shift]

\* pose.getPoseLandmark(type): nullable
getPoseLandmark(lib, i) ==
  IF AndroidLandmarks[i][1] \in lib.supplied
    THEN Some(AndroidPosition(i, lib.shift))
    ELSE None

\* addLandmarkToMap(landmark, landmarkName): the entry it puts in the map, the
\* landmark's position, or 0.0 for a null landmark
addLandmarkToMap(landmark, landmarkName) ==
  [key |-> landmarkName,
   point |-> [x |-> IF NonNull(landmark) THEN landmark[1].x ELSE 0,
              y |-> IF NonNull(landmark) THEN landmark[1].y ELSE 0]]

\* Variant for sensitivity analysis: only the landmarks the library supplies
\* are put in the map.
AndroidMapSuppliedOnly(lib) ==
  LET hit == SelectSeq([i \in 1..Len(AndroidLandmarks) |-> i],
                       LAMBDA i : AndroidLandmarks[i][1] \in lib.supplied)
  IN  [n \in 1..Len(hit) |->
         addLandmarkToMap(getPoseLandmark(lib, hit[n]), AndroidLandmarks[hit[n]][2])]

\* if (pose.allPoseLandmarks.isNotEmpty()) { addLandmarkToMap(...) x 33 }:
\* one entry per call, the 33 keys being distinct
AndroidMap(lib) ==
  IF lib.supplied # {}
    THEN [i \in 1..Len(AndroidLandmarks) |->
            addLandmarkToMap(getPoseLandmark(lib, i), AndroidLandmarks[i][2])]
    ELSE <<>>

ErrorPrefix == "Error processing pose detection: "

Returned(map) == [kind |-> "map", map |-> map, prefix |-> "", cause |-> ""]

Thrown(prefix, cause) == [kind |-> "throw", map |-> <<>>, prefix |-> prefix, cause |-> cause]

\* Variant for sensitivity analysis: a catch block that swallows the failure
\* and returns the empty map.
AndroidCatchSwallowed(cause) == Returned(<<>>)

\* catch (e: Exception) { throw Exception("Error processing pose detection: ${e.message}") }
AndroidCatch(cause) == Thrown(ErrorPrefix, cause)

\* whether poseDetector.process(image) is reached
DetectorRuns(lib) == lib.fail \notin {"image", "orientation"}

\* the body of the try block, from frame.image to map.toHashMap()
AndroidProcess(lib) ==
  CASE lib.fail = "image" -> AndroidCatch("No image available in the frame.")
    [] lib.fail = "orientation" -> AndroidCatch("invalid orientation")
    [] lib.fail = "detector" -> AndroidCatch("detector task failed")
    [] OTHER -> Returned(AndroidMap(lib))

\* arguments?.get(name)
ArgGet(arguments, name) ==
  IF NonNull(arguments) /\ name \in DOMAIN arguments[1]
    THEN Some(arguments[1][name])
    ELSE None

\* Variant for sensitivity analysis: a builder that falls back to stream mode
\* and tests the performance mode against "max".
ArgsDetectorOptionsStreamDefault(arguments) ==
  [mode |-> IF ArgGet(arguments, "mode") = Some("single")
              THEN "SINGLE_IMAGE_MODE" ELSE "STREAM_MODE",
   hw   |-> IF ArgGet(arguments, "performanceMode") = Some("max")
              THEN "CPU_GPU" ELSE "CPU"]

\* the options builder of the plugin that reads its arguments
ArgsDetectorOptions(arguments) ==
  [mode |-> IF ArgGet(arguments, "mode") = Some("stream")
              THEN "STREAM_MODE" ELSE "SINGLE_IMAGE_MODE",
   hw   |-> IF ArgGet(arguments, "performanceMode") = Some("min")
              THEN "CPU" ELSE "CPU_GPU"]

\* the detector the busy-flag plugin builds once, whatever the arguments
BusyDetectorOptions == [mode |-> "STREAM_MODE", hw |-> "CPU_GPU"]

\* a native invocation: what it returns or throws, the detector's options,
\* whether the detector ran, and the busy flag it leaves
Native(out, options, ran, busy) ==
  [out |-> out, options |-> options, ran |-> ran, busy |-> busy]

\* callback of the plugin that reads its arguments
ArgsCallback(arguments, lib) ==
  Native(AndroidProcess(lib), ArgsDetectorOptions(arguments), DetectorRuns(lib), FALSE)

\* callback of the busy-flag plugin when no other invocation runs beside it
BusyCallback(busy, lib) ==
  IF busy
    THEN Native(Returned(<<>>), BusyDetectorOptions, FALSE, busy)
    ELSE Native(AndroidProcess(lib), BusyDetectorOptions, DetectorRuns(lib), FALSE)

(***************************************************************************)
(* The iOS plugin.  lib.error: poseDetector.results throws; lib.poses: the *)
(* detected poses, each mapping every landmark type to its likelihood (in  *)
(* tenths) and position.                                                   *)
(***************************************************************************)
\* inFrameLikelihood > 0.5, in tenths
LikelihoodThreshold == 5

\* Variant for sensitivity analysis: no likelihood test at all.
getLandmarkDataUnfiltered(pose, type) ==
  Some([x |-> pose[type].x, y |-> pose[type].y])

\* Variant for sensitivity analysis: the likelihood test with >= for >.
getLandmarkDataAtLeast(pose, type) ==
  LET landmark == pose[type]
  IN  IF landmark.inFrameLikelihood >= LikelihoodThreshold
        THEN Some([x |-> landmark.x, y |-> landmark.y])
        ELSE None

getLandmarkData(pose, type) ==
  LET landmark == pose[type]
  IN  IF landmark.inFrameLikelihood > LikelihoodThreshold
        THEN Some([x |-> landmark.x, y |-> landmark.y])
        ELSE None

\* PoseLandmarkWrapper.allCases.forEach { if let landmarkData = ... {
\*   result[landmarkType.description] = landmarkData } }
IosLandmarks(pose) ==
  LET kept == SelectSeq(PoseLandmarkWrapper,
                        LAMBDA type : NonNull(getLandmarkData(pose, type)))
  IN  [i \in 1..Len(kept) |->
         [key |-> kept[i], point |-> getLandmarkData(pose, kept[i])[1]]]

\* lazy var options: detectorMode = .stream
IosDetectorOptions == [mode |-> "stream", hw |-> "default"]

\* Variant for sensitivity analysis: a callback that rethrows the detector error.
IosCallbackRethrowing(lib) ==
  Native(IF lib.error
           THEN Thrown("Pose detection error: ", "results failed")
           ELSE Returned(IF Len(lib.poses) > 0 THEN IosLandmarks(lib.poses[1]) ELSE <<>>),
         IosDetectorOptions, TRUE, FALSE)

\* callback: the first pose only; a detector error leaves result empty
IosCallback(lib) ==
  Native(Returned(IF ~lib.error /\ Len(lib.poses) > 0
                    THEN IosLandmarks(lib.poses[1])
                    ELSE <<>>),
         IosDetectorOptions, TRUE, FALSE)

\* The earlier iOS plugin.  Its detector mode is set from arguments["mode"]
\* when that is given ("single": single image; any other string: stream) and
\* otherwise stays as the last call left it.
IosArgsMode(arguments, mode) ==
  CASE ArgGet(arguments, "mode") = None -> mode
    [] ArgGet(arguments, "mode") = Some("single") -> "singleImage"
    [] OTHER -> "stream"

\* whether getLandmarkData gives data for the type in the n-th pose
Kept(poses, n, type) == NonNull(getLandmarkData(poses[n], type))

\* for pose in poses { for landmarkType in PoseLandmarkWrapper.allCases {
\*   if let landmarkData = ... { result[landmarkName] = landmarkData } } }:
\* under each name, the data of the last pose that has data for it
IosAllLandmarks(poses) ==
  LET kept == SelectSeq(PoseLandmarkWrapper,
                        LAMBDA type : \E n \in 1..Len(poses) : Kept(poses, n, type))
      last(type) == CHOOSE n \in 1..Len(poses) :
                      /\ Kept(poses, n, type)
                      /\ \A m \in (n + 1)..Len(poses) : ~Kept(poses, m, type)
  IN  [i \in 1..Len(kept) |->
         [key |-> kept[i],
          point |-> getLandmarkData(poses[last(kept[i])], kept[i])[1]]]

\* callback of the earlier iOS plugin: every pose; a detector error leaves
\* result empty
IosAllPosesCallback(arguments, lib, mode) ==
  Native(Returned(IF ~lib.error THEN IosAllLandmarks(lib.poses) ELSE <<>>),
         [mode |-> IosArgsMode(arguments, mode), hw |-> "default"], TRUE, FALSE)

(***************************************************************************)
(* detectPose, in its two sources.  plugin is None when                    *)
(* initFrameProcessorPlugin returned undefined, else Some(native plugin).  *)
(***************************************************************************)
NativePlugins == {"android_args", "android_busy", "ios"}

\* plugin.call(frame, arguments): the native callback of the registered plugin
pluginCall(native, arguments, lib, busy) ==
  CASE native = "android_args" -> ArgsCallback(arguments, lib)
    [] native = "android_busy" -> BusyCallback(busy, lib)
    [] OTHER -> IosCallback(lib)

\* what detectPose did: threw or returned value (None: null), and its plugin call
Detected(kind, value, called, arguments, native) ==
  [kind |-> kind, value |-> value, called |-> called,
   arguments |-> arguments, native |-> native]

NoNative == Native(Returned(<<>>), [mode |-> "", hw |-> ""], FALSE, FALSE)

\* the result of plugin.call as detectPose passes it on
PassOn(arguments, native) ==
  IF native.out.kind = "throw"
    THEN Detected("throw", None, TRUE, arguments, native)
    ELSE Detected("return", Some(native.out.map), TRUE, arguments, native)

\* utils/poseDetector.ts: detectPose(frame)
detectPose(plug, lib, busy) ==
  IF plug = None
    THEN Detected("throw", None, FALSE, None, NoNative)
    ELSE PassOn(None, pluginCall(plug[1], None, lib, busy))

\* Variant for sensitivity analysis: detectPose(frame, options) that calls
\* plugin.call(frame) whatever the options.
detectPoseOptionsFrameOnly(plug, options, lib, busy) ==
  IF plug = None
    THEN Detected("throw", None, FALSE, None, NoNative)
    ELSE PassOn(None, pluginCall(plug[1], None, lib, busy))

\* poseDetector.ts: detectPose(frame, options)
detectPoseOptions(plug, options, lib, busy) ==
  IF plug = None
    THEN Detected("throw", None, FALSE, None, NoNative)
    ELSE IF NonNull(options)
      THEN PassOn(options, pluginCall(plug[1], options, lib, busy))
      ELSE PassOn(None, pluginCall(plug[1], None, lib, busy))


(***************************************************************************)
(* The frame processor worklet of PoseDetectionScreen / useFrameProcessor. *)
(* A draw call: op, the forEach iteration (entry) that issued it, its      *)
(* coordinates and its paint.                                              *)
(***************************************************************************)
Draw(op, entry, from, to, color, style, size) ==
  [op |-> op, entry |-> entry, from |-> from, to |-> to,
   color |-> color, style |-> style, size |-> size]

\* Variant for sensitivity analysis: the circle drawn at (y, x).
drawCircleSwapped(i, point) ==
  Draw("circle", i, <<point.y, point.x>>, <<>>, "white", "Fill", CircleRadius)

\* frame.drawCircle(point.x, point.y, 8, pointPaint)
drawCircle(i, point) ==
  Draw("circle", i, <<point.x, point.y>>, <<>>, "white", "Fill", CircleRadius)

Indices(s) == [i \in 1..Len(s) |-> i]

\* if (point?.x != null && point?.y != null)
HasBoth(point) == HasCoord(point, "x") /\ HasCoord(point, "y")

\* Object.entries(poses).forEach(([_, point]) => { if (...) frame.drawCircle(...) })
CircleCalls(dict) ==
  LET hit == SelectSeq(Indices(dict), LAMBDA i : HasBoth(Some(dict[i].point)))
  IN  [n \in 1..Len(hit) |-> drawCircle(hit[n], dict[hit[n]].point)]

\* const start = poses[startPoint]
StartOf(dict, connection) == Get(dict, connection.points[1])

\* Variant for sensitivity analysis: the end point read under the start name.
EndOfAsStart(dict, connection) == Get(dict, connection.points[1])

\* const end = poses[endPoint]
EndOf(dict, connection) == Get(dict, connection.points[2])

\* start?.x != null && start?.y != null && end?.x != null && end?.y != null
BothEndpoints(start, end) ==
  /\ HasCoord(start, "x")
  /\ HasCoord(start, "y")
  /\ HasCoord(end, "x")
  /\ HasCoord(end, "y")

\* Variant for sensitivity analysis: one red paint of width 4 for every line.
LinePaintFixed(connection) == [color |-> "red", style |-> "Stroke", size |-> 4]

\* linePaint: the connection's color, stroke style, the connection's width
LinePaint(connection) ==
  [color |-> connection.color, style |-> "Stroke", size |-> connection.width]

\* frame.drawLine(start.x, start.y, end.x, end.y, linePaint)
drawLine(i, start, end, paint) ==
  Draw("line", i, <<start.x, start.y>>, <<end.x, end.y>>,
       paint.color, paint.style, paint.size)

\* PoseConnections.forEach(({points: [startPoint, endPoint], color, width}) => {
\*   if (...) { linePaint...; frame.drawLine(...) } })
LineCalls(dict) ==
  LET hit == SelectSeq(Indices(PoseConnections),
                       LAMBDA i : BothEndpoints(StartOf(dict, PoseConnections[i]),
                                                EndOf(dict, PoseConnections[i])))
  IN  [n \in 1..Len(hit) |->
         drawLine(hit[n], StartOf(dict, PoseConnections[hit[n]])[1],
                  EndOf(dict, PoseConnections[hit[n]])[1],
                  LinePaint(PoseConnections[hit[n]]))]

\* the draw calls of one frame, in the order the worklet issues them
DrawCalls(dict) == CircleCalls(dict) \o LineCalls(dict)

Body(thrower, dict, done) ==
  [threw |-> thrower # "none", fault |-> thrower, poses |-> dict, drawn |-> done]

\* the try block: render, detectPose, if (poses) { circles; lines }.
\* failAt > 0: the failAt-th draw call of the frame throws.
FrameBody(renderOk, det, failAt) ==
  CASE ~renderOk -> Body("render", None, <<>>)
    [] renderOk /\ det.kind = "throw" -> Body("detectPose", None, <<>>)
    [] renderOk /\ det.kind # "throw" /\ det.value = None -> Body("none", None, <<>>)
    [] OTHER ->
         LET all == DrawCalls(det.value[1])
         IN  IF failAt \in 1..Len(all)
               THEN Body("draw", det.value, SubSeq(all, 1, failAt - 1))
               ELSE Body("none", det.value, all)

\* Variant for sensitivity analysis: the worklet body without try/catch.
NoCatch(body) == [escaped |-> body.threw, warned |-> FALSE]

\* catch (error) { console.warn("Error detecting pose:", error) }
TryCatch(body) == [escaped |-> FALSE, warned |-> body.threw]


(***************************************************************************)
(* The inputs of one frame.                                                *)
(***************************************************************************)
AndroidProbe == {"LEFT_SHOULDER", "LEFT_HIP"}

AndroidLib(fail, supplied, shift) == [fail |-> fail, supplied |-> supplied, shift |-> shift]

AndroidLibs ==
  {AndroidLib("none", AndroidTypes \ m, sh) : m \in SUBSET AndroidProbe, sh \in 0..MaxShift}
    \cup {AndroidLib("none", m, sh) : m \in SUBSET AndroidProbe, sh \in 0..MaxShift}
    \cup {AndroidLib(f, {}, 0) : f \in {"image", "orientation", "detector"}}

IosProbe == {"leftShoulder", "leftHip"}

IosPose(base, probe, shift) ==
  [t \in IosTypes |->
     [inFrameLikelihood |-> IF t \in DOMAIN probe THEN probe[t] ELSE base,
      x |-> IndexOf(PoseLandmarkWrapper, t) + shift,
      y |-> 2 * IndexOf(PoseLandmarkWrapper, t) + shift]]

IosPoses ==
  {IosPose(base, probe, sh) :
     base \in {LikelihoodThreshold - 3, LikelihoodThreshold + 4},
     probe \in [IosProbe -> (LikelihoodThreshold - 1)..(LikelihoodThreshold + 1)],
     sh \in 0..MaxShift}

\* a second person in the frame, far from the first
OtherPose == IosPose(LikelihoodThreshold + 4, <<>>, 100)

IosLib(error, poses) == [error |-> error, poses |-> poses]

IosLibs ==
  {IosLib(TRUE, <<>>), IosLib(FALSE, <<>>)}
    \cup {IosLib(FALSE, <<p>>) : p \in IosPoses}
    \cup {IosLib(FALSE, <<p, OtherPose>>) : p \in IosPoses}

NoLib == AndroidLib("none", {}, 0)

Libs(plug) ==
  CASE plug = None -> {NoLib}
    [] plug = Some("ios") -> IosLibs
    [] OTHER -> AndroidLibs

\* The bridge types plugin.call as `any`: besides the native map as it is, the
\* worklet's guards cover a null result and a point with a coordinate missing.
JsProbe == {"leftShoulder", "leftHip"}

Tampers ==
  {[kind |-> "none", key |-> "", field |-> ""],
   [kind |-> "null", key |-> "", field |-> ""]}
    \cup {[kind |-> "drop", key |-> k, field |-> f] : k \in JsProbe, f \in {"x", "y"}}

DropField(point, f) == [g \in DOMAIN point \ {f} |-> point[g]]

Tamper(det, t) ==
  CASE det.kind # "return" \/ t.kind = "none" -> det
    [] det.kind = "return" /\ t.kind = "null" -> [det EXCEPT !.value = None]
    [] OTHER ->
         [det EXCEPT !.value =
            Some([i \in 1..Len(det.value[1]) |->
                    IF det.value[1][i].key = t.key
                      THEN [key |-> t.key,
                            point |-> DropField(det.value[1][i].point, t.field)]
                      ELSE det.value[1][i]])]

\* the draw call that throws: none (0), one of the first MaxFailAt, or the last
FailPoints(det) ==
  (0..MaxFailAt)
    \cup (IF det.kind = "return" /\ det.value # None
            THEN {Len(DrawCalls(det.value[1]))} ELSE {})

OptionKeys == {"mode", "performanceMode"}

OptionValues == {"stream", "single", "min", "max"}

\* the options argument of detectPose: absent, or any record over the option keys
OptionChoices ==
  {None} \cup {Some(o) : o \in UNION {[D -> OptionValues] : D \in SUBSET OptionKeys}}

(***************************************************************************)
(* Tuples of the state, and its starting values.                           *)
(***************************************************************************)
frameVars == <<phase, plugin, iosDetectorMode, givenOptions, frameLib, lastDetect, framePoses, drawn, fault, warned, escaped>>

androidVars == <<pc, held, pending, returned, started>>

screenVars == <<screen, devices, status, isLoading, position, flips>>

vars == <<frameVars, isProcessing, androidVars, screenVars>>

Threads == {1, 2}

NotCalled == Detected("none", None, FALSE, None, NoNative)

FrameStart(p) ==
  /\ phase = "idle"
  /\ plugin = p
  /\ iosDetectorMode = IosDetectorOptions.mode
  /\ givenOptions = None
  /\ frameLib = NoLib
  /\ lastDetect = NotCalled
  /\ framePoses = None
  /\ drawn = <<>>
  /\ fault = "none"
  /\ warned = FALSE
  /\ escaped = FALSE
  /\ isProcessing = FALSE

AndroidStart ==
  /\ pc = [t \in Threads |-> "idle"]
  /\ held = [t \in Threads |-> FALSE]
  /\ pending = [t \in Threads |-> NoNative]
  /\ returned = [t \in Threads |-> NoNative]
  /\ started = 0

ScreenStart(src, devs, st) ==
  /\ screen = src
  /\ devices = devs
  /\ status = st
  /\ isLoading = TRUE
  /\ position = "back"
  /\ flips = 0

Plugins == {None} \cup {Some(n) : n \in NativePlugins}

(***************************************************************************)
(* Spec: the frame pipeline.  frameProcessor is one call of the frame      *)
(* processor by the camera, from frame.render() to the end of try/catch;   *)
(* release is the frame leaving scope: the records of the frame are reset, *)
(* the plugin and its busy flag stay.  An exception that left the callback *)
(* would end the worklet, so frames are processed while none has escaped.  *)
(***************************************************************************)
Init ==
  /\ \E p \in Plugins : FrameStart(p)
  /\ AndroidStart
  /\ ScreenStart("hooks", {"back", "front"}, "granted")

frameProcessor ==
  /\ phase = "idle"
  /\ ~escaped
  /\ \E renderOk \in BOOLEAN, l \in Libs(plugin), t \in Tampers :
       LET d == IF renderOk
                  THEN Tamper(detectPose(plugin, l, isProcessing), t)
                  ELSE NotCalled
       IN  \E failAt \in FailPoints(d) :
             LET body == FrameBody(renderOk, d, failAt)
                 end  == TryCatch(body)
             IN  /\ phase' = "done"
                 /\ givenOptions' = None
                 /\ frameLib' = (IF renderOk THEN l ELSE NoLib)
                 /\ lastDetect' = d
                 /\ framePoses' = body.poses
                 /\ drawn' = body.drawn
                 /\ fault' = body.fault
                 /\ warned' = end.warned
                 /\ escaped' = end.escaped
                 /\ isProcessing' = (IF d.called THEN d.native.busy ELSE isProcessing)
                 /\ UNCHANGED <<plugin, iosDetectorMode, androidVars, screenVars>>

release ==
  /\ phase = "done"
  /\ phase' = "idle"
  /\ givenOptions' = None
  /\ frameLib' = NoLib
  /\ lastDetect' = NotCalled
  /\ framePoses' = None
  /\ drawn' = <<>>
  /\ fault' = "none"
  /\ warned' = FALSE
  /\ UNCHANGED <<plugin, iosDetectorMode, escaped, isProcessing, androidVars, screenVars>>

Next == frameProcessor \/ release

Spec == Init /\ [][Next]_vars

(***************************************************************************)
(* DetectSpec: detectPose, in both of its sources, applied to every plugin *)
(* state, library outcome and options value.                               *)
(***************************************************************************)
DetectInit == Init

Called(options, l, d) ==
  /\ phase' = "done"
  /\ givenOptions' = options
  /\ frameLib' = l
  /\ lastDetect' = d
  /\ isProcessing' = (IF d.called THEN d.native.busy ELSE isProcessing)
  /\ UNCHANGED <<plugin, iosDetectorMode, framePoses, drawn, fault, warned, escaped, androidVars, screenVars>>

detectPoseFrame ==
  /\ phase = "idle"
  /\ \E l \in Libs(plugin) : Called(None, l, detectPose(plugin, l, isProcessing))

detectPoseFrameOptions ==
  /\ phase = "idle"
  /\ \E l \in Libs(plugin), options \in OptionChoices :
       Called(options, l, detectPoseOptions(plugin, options, l, isProcessing))

DetectNext == detectPoseFrame \/ detectPoseFrameOptions \/ release

DetectSpec == DetectInit /\ [][DetectNext]_vars

(***************************************************************************)
(* ScreenSpec: PoseDetectionScreen.  screen names the source that is       *)
(* built: "inline" requests the permission in an effect and renders the    *)
(* camera whenever a device exists; "hooks" reads status and isLoading     *)
(* from useCameraPermissions and renders by them.                          *)
(***************************************************************************)
ScreenSources == {"inline", "hooks"}

\* useCameraDevice(position): undefined when the phone has no such camera
device == IF position \in devices THEN Some(position) ELSE None

\* what the inline PoseDetectionScreen returns
InlineView == IF device = None THEN "NoDevice" ELSE "Camera"

\* what the PoseDetectionScreen built on the hooks returns
HooksView ==
  CASE isLoading -> "Loading"
    [] ~isLoading /\ status = "denied" -> "PermissionDenied"
    [] ~isLoading /\ status # "denied" /\ device = None -> "NoDevice"
    [] OTHER -> "Camera"

View == IF screen = "inline" THEN InlineView ELSE HooksView

\* <Camera ... isActive={true} frameProcessor={frameProcessor} /> is rendered
CameraMounted == View = "Camera"

\* what Camera.requestCameraPermission() resolves to
RequestResults ==
  CASE status = "granted" -> {"granted"}
    [] status = "restricted" -> {"denied"}
    [] OTHER -> {"granted", "denied"}

\* useEffect(() => { const status = await Camera.requestCameraPermission() ... }, [])
requestCameraPermission ==
  /\ screen = "inline"
  /\ isLoading
  /\ \E r \in RequestResults : status' = r
  /\ isLoading' = FALSE
  /\ UNCHANGED <<screen, devices, position, flips, frameVars, isProcessing, androidVars>>

\* useCameraPermissions: the request made on mount, or by requestPermission, resolves
permissionResolved ==
  /\ screen = "hooks"
  /\ isLoading
  /\ \E r \in RequestResults : status' = r
  /\ isLoading' = FALSE
  /\ UNCHANGED <<screen, devices, position, flips, frameVars, isProcessing, androidVars>>

\* the Grant Permission button: handlePermissionRequest -> requestPermission()
handlePermissionRequest ==
  /\ screen = "hooks"
  /\ View = "PermissionDenied"
  /\ isLoading' = TRUE
  /\ UNCHANGED <<screen, devices, status, position, flips, frameVars, isProcessing, androidVars>>

\* Variant for sensitivity analysis: a flip that always selects the front camera.
FlipToFront(pos) == "front"

\* (pos) => (pos === "front" ? "back" : "front")
FlipPosition(pos) == IF pos = "front" THEN "back" ELSE "front"

\* the flip button, rendered with the camera: setPosition(...)
flipCamera ==
  /\ CameraMounted
  /\ flips < MaxFlips
  /\ position' = FlipPosition(position)
  /\ flips' = flips + 1
  /\ UNCHANGED <<screen, devices, status, isLoading, frameVars, isProcessing, androidVars>>

ScreenInit ==
  /\ FrameStart(None)
  /\ AndroidStart
  /\ \E src \in ScreenSources, devs \in SUBSET {"back", "front"},
        st \in {"not-determined", "granted", "denied", "restricted"} :
       ScreenStart(src, devs, st)

ScreenNext ==
  \/ requestCameraPermission
  \/ permissionResolved
  \/ handlePermissionRequest
  \/ flipCamera

ScreenSpec == ScreenInit /\ [][ScreenNext]_vars

(***************************************************************************)
(* IosSpec: the callback of the iOS plugin in its two sources, applied to   *)
(* every detector outcome and arguments value.  plugin names the source    *)
(* that is built: "ios" takes the first pose, "ios_all" loops over all.    *)
(***************************************************************************)
IosSources == {"ios", "ios_all"}

IosCalled(arguments, l, native) ==
  /\ phase' = "done"
  /\ givenOptions' = arguments
  /\ frameLib' = l
  /\ lastDetect' = PassOn(arguments, native)
  /\ iosDetectorMode' = native.options.mode
  /\ UNCHANGED <<plugin, framePoses, drawn, fault, warned, escaped,
                 isProcessing, androidVars, screenVars>>

\* callback(frame, withArguments:) of the plugin that takes poses.first
callbackFirstPose ==
  /\ phase = "idle"
  /\ plugin = Some("ios")
  /\ \E l \in IosLibs, arguments \in OptionChoices :
       IosCalled(arguments, l, IosCallback(l))

\* callback(frame, withArguments:) of the plugin that loops over poses
callbackAllPoses ==
  /\ phase = "idle"
  /\ plugin = Some("ios_all")
  /\ \E l \in IosLibs, arguments \in OptionChoices :
       IosCalled(arguments, l, IosAllPosesCallback(arguments, l, iosDetectorMode))

IosInit ==
  /\ \E src \in IosSources : FrameStart(Some(src))
  /\ AndroidStart
  /\ ScreenStart("hooks", {"back", "front"}, "granted")

IosNext == callbackFirstPose \/ callbackAllPoses \/ release

IosSpec == IosInit /\ [][IosNext]_vars

(***************************************************************************)
(* AndroidSpec: invocations of the busy-flag plugin's callback that may    *)
(* overlap.  The test of isProcessing, its setting, the detection and the  *)
(* finally block are separate steps of an invocation.                      *)
(***************************************************************************)
\* callback(frame, arguments) is entered
invoke(t) ==
  /\ pc[t] = "idle"
  /\ started < MaxCalls
  /\ started' = started + 1
  /\ pc' = [pc EXCEPT ![t] = "check"]
  /\ UNCHANGED <<isProcessing, held, pending, returned, frameVars, screenVars>>

\* Variant for sensitivity analysis: the busy test placed inside try/finally,
\* so that the early return clears the flag.
skipFrameCleared(t) ==
  /\ pc[t] = "check"
  /\ isProcessing
  /\ pc' = [pc EXCEPT ![t] = "idle"]
  /\ isProcessing' = FALSE
  /\ returned' = [returned EXCEPT ![t] = Native(Returned(<<>>), BusyDetectorOptions, FALSE, FALSE)]
  /\ UNCHANGED <<held, pending, started, frameVars, screenVars>>

\* if (isProcessing) { return HashMap() }
skipFrame(t) ==
  /\ pc[t] = "check"
  /\ isProcessing
  /\ pc' = [pc EXCEPT ![t] = "idle"]
  /\ returned' = [returned EXCEPT ![t] = Native(Returned(<<>>), BusyDetectorOptions, FALSE, isProcessing)]
  /\ UNCHANGED <<isProcessing, held, pending, started, frameVars, screenVars>>

\* the test finds the flag clear: on to the try block
enter(t) ==
  /\ pc[t] = "check"
  /\ ~isProcessing
  /\ pc' = [pc EXCEPT ![t] = "try"]
  /\ UNCHANGED <<isProcessing, held, pending, returned, started, frameVars, screenVars>>

\* isProcessing = true
setBusy(t) ==
  /\ pc[t] = "try"
  /\ isProcessing' = TRUE
  /\ held' = [held EXCEPT ![t] = TRUE]
  /\ pc' = [pc EXCEPT ![t] = "process"]
  /\ UNCHANGED <<pending, returned, started, frameVars, screenVars>>

\* frame.image ... Tasks.await(poseDetector.process(image)) ... map.toHashMap(),
\* or the catch block's exception
process(t) ==
  /\ pc[t] = "process"
  /\ \E l \in AndroidLibs :
       pending' = [pending EXCEPT ![t] =
                     Native(AndroidProcess(l), BusyDetectorOptions, DetectorRuns(l), TRUE)]
  /\ pc' = [pc EXCEPT ![t] = "finally"]
  /\ UNCHANGED <<isProcessing, held, returned, started, frameVars, screenVars>>

\* Variant for sensitivity analysis: the flag cleared as the last statement of
\* the try block, so that an invocation that throws leaves it set.
finallyOnReturnOnly(t) ==
  /\ pc[t] = "finally"
  /\ isProcessing' = (IF pending[t].out.kind = "map" THEN FALSE ELSE isProcessing)
  /\ held' = [held EXCEPT ![t] = FALSE]
  /\ returned' = [returned EXCEPT ![t] = [pending[t] EXCEPT !.busy = isProcessing']]
  /\ pc' = [pc EXCEPT ![t] = "idle"]
  /\ UNCHANGED <<pending, started, frameVars, screenVars>>

\* Variant for sensitivity analysis: no finally block; the flag stays set.
finallyKeepsFlag(t) ==
  /\ pc[t] = "finally"
  /\ held' = [held EXCEPT ![t] = FALSE]
  /\ returned' = [returned EXCEPT ![t] = [pending[t] EXCEPT !.busy = isProcessing]]
  /\ pc' = [pc EXCEPT ![t] = "idle"]
  /\ UNCHANGED <<isProcessing, pending, started, frameVars, screenVars>>

\* finally { isProcessing = false }, then the return or the throw
finally(t) ==
  /\ pc[t] = "finally"
  /\ isProcessing' = FALSE
  /\ held' = [held EXCEPT ![t] = FALSE]
  /\ returned' = [returned EXCEPT ![t] = [pending[t] EXCEPT !.busy = FALSE]]
  /\ pc' = [pc EXCEPT ![t] = "idle"]
  /\ UNCHANGED <<pending, started, frameVars, screenVars>>

AndroidInit ==
  /\ FrameStart(Some("android_busy"))
  /\ AndroidStart
  /\ ScreenStart("hooks", {"back", "front"}, "granted")

AndroidNext ==
  \E t \in Threads :
    \/ invoke(t)
    \/ skipFrame(t)
    \/ enter(t)
    \/ setBusy(t)
    \/ process(t)
    \/ finally(t)

AndroidSpec == AndroidInit /\ [][AndroidNext]_vars


(***************************************************************************)
(* Properties of the frame pipeline (Spec).                                *)
(***************************************************************************)
\* the draw calls of the last frame that are lines
LineIndices == {n \in 1..Len(drawn) : drawn[n].op = "line"}

\* name is a key of the frame's poses whose point has both an x and a y
Present(name) ==
  /\ NonNull(framePoses)
  /\ \E i \in 1..Len(framePoses[1]) :
       /\ framePoses[1][i].key = name
       /\ {"x", "y"} \subseteq DOMAIN framePoses[1][i].point

\* the coordinates the frame's poses hold under name
CoordsOf(name) ==
  LET i == CHOOSE j \in 1..Len(framePoses[1]) : framePoses[1][j].key = name
  IN  <<framePoses[1][i].point.x, framePoses[1][i].point.y>>

\* C1: a line is drawn for an entry of the connection table only when both of
\* the entry's endpoint landmarks are in the frame's landmark dictionary with
\* non-null x and y; an entry with a missing or null endpoint gets no line.
C1_LineOnlyBetweenPresentEndpoints ==
  \A n \in LineIndices :
    /\ Present(PoseConnections[drawn[n].entry].points[1])
    /\ Present(PoseConnections[drawn[n].entry].points[2])

\* a native dictionary lacking an endpoint: the frame completes, some lines are
\* drawn, and an entry whose start is present and whose end is missing has none
C1_Witness ==
  /\ phase = "done"
  /\ fault = "none"
  /\ lastDetect.kind = "return"
  /\ framePoses = Some(lastDetect.native.out.map)
  /\ LineIndices # {}
  /\ \E i \in 1..Len(PoseConnections) :
       /\ Present(PoseConnections[i].points[1])
       /\ ~Present(PoseConnections[i].points[2])
       /\ \A n \in LineIndices : drawn[n].entry # i

\* C2: an exception thrown inside the frame processor (by frame.render, by
\* detectPose - the missing plugin or a native error - or by a draw call) is
\* caught and logged with console.warn; none leaves the callback, and the
\* frame processor stays ready for the next frame.
C2_ExceptionsCaughtAndWarned ==
  /\ ~escaped
  /\ (phase = "done" /\ fault # "none") => warned
  /\ (phase = "idle") => ENABLED frameProcessor

\* the native plugin threw inside detectPose and the frame ended with a warning
C2_Witness ==
  /\ phase = "done"
  /\ fault = "detectPose"
  /\ lastDetect.called
  /\ lastDetect.native.out.kind = "throw"
  /\ warned
  /\ ~escaped

\* C10: the connection table is walked once per frame: each entry yields at
\* most one line, and each line has its entry's color and stroke width and
\* joins the coordinates of the entry's two landmarks.
C10_OneLinePerEntryWithItsPaint ==
  /\ Cardinality(LineIndices) <= Len(PoseConnections)
  /\ \A n, m \in LineIndices : drawn[n].entry = drawn[m].entry => n = m
  /\ \A n, m \in LineIndices : n < m => drawn[n].entry < drawn[m].entry
  /\ \A n \in LineIndices :
       LET connection == PoseConnections[drawn[n].entry]
       IN  /\ drawn[n].color = connection.color
           /\ drawn[n].size = connection.width
           /\ drawn[n].style = "Stroke"
           /\ drawn[n].from = CoordsOf(connection.points[1])
           /\ drawn[n].to = CoordsOf(connection.points[2])

\* a full Android pose: every entry of the table yields its line
C10_Witness ==
  /\ phase = "done"
  /\ fault = "none"
  /\ Cardinality(LineIndices) = Len(PoseConnections)
  /\ \E n, m \in LineIndices : drawn[n].color # drawn[m].color

\* the last frame reached the vision library through the native plugin, which
\* returned a dictionary
Marshalled ==
  /\ phase = "done"
  /\ lastDetect.called
  /\ lastDetect.native.ran
  /\ lastDetect.native.out.kind = "map"

\* the dictionary the native plugin returned for the last frame
NativeMap == lastDetect.native.out.map

\* a pose was detected in the last frame
PoseDetected ==
  IF plugin = Some("ios")
    THEN ~frameLib.error /\ Len(frameLib.poses) > 0
    ELSE frameLib.supplied # {}

\* every landmark ML Kit supplies on Android is in the dictionary at its position
AndroidNothingDropped ==
  \A i \in 1..Len(AndroidLandmarks) :
    AndroidLandmarks[i][1] \in frameLib.supplied =>
      Get(NativeMap, AndroidLandmarks[i][2]) = Some(AndroidPosition(i, frameLib.shift))

\* C5 as stated: the native plugin filters nothing - every landmark the vision
\* library reports for the pose is marshalled into the returned dictionary.
C5_EveryReportedLandmarkMarshalled ==
  (Marshalled /\ PoseDetected) =>
    IF plugin = Some("ios")
      THEN \A type \in IosTypes : type \in Keys(NativeMap)
      ELSE AndroidNothingDropped

\* C5 amended: the Android plugins drop no landmark the library supplies; the
\* iOS plugin marshals, of the landmark types it enumerates on the first pose,
\* those whose inFrameLikelihood exceeds 0.5 at their position, and drops the
\* landmarks at or below that likelihood.
C5_MarshalledUpToIosLikelihoodFilter ==
  (Marshalled /\ PoseDetected) =>
    IF plugin = Some("ios")
      THEN LET pose == frameLib.poses[1]
           IN  \A type \in IosTypes :
                 IF pose[type].inFrameLikelihood > LikelihoodThreshold
                   THEN Get(NativeMap, type) =
                          Some([x |-> pose[type].x, y |-> pose[type].y])
                   ELSE type \notin Keys(NativeMap)
      ELSE AndroidNothingDropped

\* an iOS frame whose pose has a landmark above the threshold, which is kept,
\* and one exactly at it, which is dropped
C5_Witness ==
  /\ Marshalled
  /\ PoseDetected
  /\ plugin = Some("ios")
  /\ \E kept, dropped \in IosTypes :
       /\ kept \in Keys(NativeMap)
       /\ frameLib.poses[1][dropped].inFrameLikelihood = LikelihoodThreshold
       /\ dropped \notin Keys(NativeMap)

\* C6: whenever the frame processor hands a frame to the native plugin, the
\* plugin's pose detector is configured in stream mode.
C6_DetectorInStreamMode ==
  (phase = "done" /\ lastDetect.called) =>
    lastDetect.native.options.mode \in {"STREAM_MODE", "stream"}


(***************************************************************************)
(* Properties of detectPose (DetectSpec).                                  *)
(***************************************************************************)
\* the value the options given to detectPose hold under name ("": absent)
OptionGiven(name) ==
  IF NonNull(givenOptions) /\ name \in DOMAIN givenOptions[1]
    THEN givenOptions[1][name]
    ELSE ""

PluginOutcome == pluginCall(plugin[1], givenOptions, frameLib, FALSE).out

\* C9: detectPose throws when the plugin is null or undefined and then never
\* calls it; otherwise it calls the plugin - with the options when they are
\* given, with the frame alone when not - and returns exactly what the call
\* returns (or throws what it throws).
C9_DetectPosePassesThePluginResult ==
  (phase = "done") =>
    IF plugin = None
      THEN lastDetect.kind = "throw" /\ ~lastDetect.called
      ELSE /\ lastDetect.called
           /\ lastDetect.arguments = givenOptions
           /\ lastDetect.native.out = PluginOutcome
           /\ IF PluginOutcome.kind = "map"
                THEN lastDetect.kind = "return" /\ lastDetect.value = Some(PluginOutcome.map)
                ELSE lastDetect.kind = "throw" /\ lastDetect.value = None

\* detectPose was called on an uninitialised plugin and threw without a call
C9_Witness ==
  /\ phase = "done"
  /\ plugin = None
  /\ lastDetect.kind = "throw"
  /\ ~lastDetect.called

(***************************************************************************)
(* Properties of the screen (ScreenSpec).                                  *)
(***************************************************************************)
\* C3: the Camera component is rendered only once the camera permission has
\* been granted.
C3_CameraOnlyWhenGranted == CameraMounted => status = "granted"

\* C8: the camera position starts as "back", every flipCamera toggles it, it
\* is always "front" or "back", and it is "back" exactly when the number of
\* flips so far is even.
C8_PositionTogglesWithFlips ==
  /\ position \in {"front", "back"}
  /\ position = "back" <=> flips % 2 = 0

\* after two flips the back camera is selected again
C8_Witness ==
  /\ flips = 2
  /\ position = "back"
  /\ CameraMounted

(***************************************************************************)
(* Properties of the busy-flag Android plugin (AndroidSpec).               *)
(***************************************************************************)
\* C4: an invocation of callback that finds isProcessing true returns an
\* empty map at once, does not run the detector, and leaves isProcessing as
\* it is.
C4_BusyInvocationSkips ==
  [][\A t \in Threads :
       (pc[t] = "check" /\ isProcessing /\ pc'[t] # "check") =>
         /\ pc'[t] = "idle"
         /\ returned'[t].out = Returned(<<>>)
         /\ ~returned'[t].ran
         /\ isProcessing' = isProcessing
         /\ pending' = pending]_vars

\* an invocation has returned empty-handed while another still holds the flag
C4_Witness ==
  \E t, u \in Threads :
    /\ t # u
    /\ pc[t] = "idle"
    /\ returned[t].busy
    /\ returned[t].out = Returned(<<>>)
    /\ ~returned[t].ran
    /\ held[u]
    /\ isProcessing


(***************************************************************************)
(* Further properties of the frame pipeline (Spec).                        *)
(***************************************************************************)
\* the draw calls of the last frame that are circles
CircleIndices == {n \in 1..Len(drawn) : drawn[n].op = "circle"}

\* the entries of the frame's poses whose point has both an x and a y
Drawable ==
  {i \in 1..Len(framePoses[1]) : {"x", "y"} \subseteq DOMAIN framePoses[1][i].point}

InsideBusySection(t) == pc[t] \in {"process", "finally"}

\* C12: under any interleaving of overlapping invocations of callback, at
\* most one invocation is between setting isProcessing to true and the
\* finally block that clears it.
C12_AtMostOneInvocationBusy ==
  \A t, u \in Threads : (InsideBusySection(t) /\ InsideBusySection(u)) => t = u

\* no invocation of callback is in progress
NoneInProgress == \A t \in Threads : pc[t] = "idle"

\* t is the only invocation in progress
Alone(t) == \A u \in Threads \ {t} : pc[u] = "idle"

\* C13: every invocation that set isProcessing to true has cleared it when
\* it exits, by return or by throw; hence whenever no invocation is in
\* progress isProcessing is false, and an invocation that starts then finds
\* the flag clear at its test.
C13_FlagClearedOnExit ==
  /\ \A t \in Threads : pc[t] = "idle" => ~held[t]
  /\ NoneInProgress => ~isProcessing
  /\ \A t \in Threads : (pc[t] = "check" /\ Alone(t)) => ~isProcessing

\* an invocation has thrown, nothing is in progress, and the flag is clear
C13_Witness ==
  /\ NoneInProgress
  /\ ~isProcessing
  /\ \E t \in Threads :
       /\ returned[t].out.kind = "throw"
       /\ returned[t].out.prefix = ErrorPrefix

\* C14: an invocation that does not overlap another is never skipped by the
\* busy flag: from its test of isProcessing it goes on into the try block,
\* also when the invocation before it threw.
C14_LoneInvocationNeverSkipped ==
  [][\A t \in Threads :
       (pc[t] = "check" /\ Alone(t) /\ pc'[t] # "check") =>
         /\ pc'[t] = "try"
         /\ returned'[t] = returned[t]]_vars

\* two invocations one after the other: the first threw, the second is in
\* the try block past isProcessing = true
C14_Witness ==
  \E t \in Threads :
    /\ Alone(t)
    /\ started = 2
    /\ returned[t].out.kind = "throw"
    /\ pc[t] = "process"
    /\ \A u \in Threads \ {t} : returned[u] = NoNative


(***************************************************************************)
(* Properties of what the native plugins return (Spec).                    *)
(***************************************************************************)
\* the last frame was handed to one of the Android plugins
OnAndroid ==
  /\ phase = "done"
  /\ plugin \in {Some("android_args"), Some("android_busy")}
  /\ lastDetect.called

\* the landmark names the Android plugins write
AndroidNames == {AndroidLandmarks[i][2] : i \in 1..Len(AndroidLandmarks)}

\* C15: the map a successful Android callback returns is empty when the pose
\* has no landmarks, and otherwise has exactly the 33 fixed landmark names,
\* each with an x and a y: the landmark's position, or 0.0 and 0.0 for a
\* landmark the library does not supply.
C15_AndroidMapAllOrNothing ==
  (OnAndroid /\ lastDetect.native.out.kind = "map") =>
    IF frameLib.supplied = {}
      THEN NativeMap = <<>>
      ELSE /\ Len(NativeMap) = 33
           /\ Keys(NativeMap) = AndroidNames
           /\ Cardinality(AndroidNames) = 33
           /\ \A i \in 1..Len(AndroidLandmarks) :
                LET point == Get(NativeMap, AndroidLandmarks[i][2])[1]
                IN  /\ DOMAIN point = {"x", "y"}
                    /\ point = IF AndroidLandmarks[i][1] \in frameLib.supplied
                                 THEN AndroidPosition(i, frameLib.shift)
                                 ELSE [x |-> 0, y |-> 0]

\* a pose of which the library supplies the left shoulder but not the left
\* hip: 33 entries, the left hip at (0, 0)
C15_Witness ==
  /\ OnAndroid
  /\ lastDetect.native.out.kind = "map"
  /\ "LEFT_SHOULDER" \in frameLib.supplied
  /\ "LEFT_HIP" \notin frameLib.supplied
  /\ Len(NativeMap) = 33
  /\ Get(NativeMap, "leftHip") = Some([x |-> 0, y |-> 0])
  /\ Get(NativeMap, "leftShoulder") # Some([x |-> 0, y |-> 0])

\* C16: in the Android plugins every failure while a frame is processed (no
\* image in the frame, the orientation conversion, the detector) makes
\* callback throw an exception whose message starts with "Error processing
\* pose detection: "; a failing callback returns no map, partial or empty.
C16_AndroidFailureThrowsWithPrefix ==
  (OnAndroid /\ frameLib.fail \in {"image", "orientation", "detector"}) =>
    /\ lastDetect.native.out.kind = "throw"
    /\ lastDetect.native.out.prefix = "Error processing pose detection: "
    /\ lastDetect.native.out.cause # ""
    /\ lastDetect.native.out.map = <<>>
    /\ lastDetect.kind = "throw"

\* the detector task failed in the busy-flag plugin and callback threw
C16_Witness ==
  /\ OnAndroid
  /\ plugin = Some("android_busy")
  /\ frameLib.fail = "detector"
  /\ lastDetect.native.ran
  /\ lastDetect.native.out.kind = "throw"
  /\ lastDetect.native.out.prefix = "Error processing pose detection: "


(***************************************************************************)
(* Properties of the iOS callback (IosSpec).                               *)
(***************************************************************************)
\* the poses of the last frame that the built source looks at
ProcessedPoses ==
  IF frameLib.error
    THEN {}
    ELSE IF plugin = Some("ios")
      THEN {n \in 1..Len(frameLib.poses) : n = 1}
      ELSE 1..Len(frameLib.poses)

\* C17: a detector error never leaves the iOS callback: when
\* poseDetector.results throws, callback returns the empty dictionary, as it
\* does when no pose is detected.
C17_IosErrorGivesEmptyDictionary ==
  (phase = "done" /\ (frameLib.error \/ Len(frameLib.poses) = 0)) =>
    /\ lastDetect.native.out.kind = "map"
    /\ lastDetect.native.out.map = <<>>
    /\ lastDetect.kind = "return"
    /\ lastDetect.value = Some(<<>>)

\* poseDetector.results threw in the plugin that takes the first pose, and
\* callback returned the empty dictionary
C17_Witness ==
  /\ phase = "done"
  /\ plugin = Some("ios")
  /\ frameLib.error
  /\ lastDetect.native.ran
  /\ lastDetect.kind = "return"
  /\ lastDetect.value = Some(<<>>)

\* C18: when one pose is processed, the returned dictionary has an entry for
\* a landmark exactly when its inFrameLikelihood is strictly greater than
\* 0.5 - a likelihood of exactly 0.5 is excluded - and the entry holds
\* exactly the keys x and y, with the landmark's position.
C18_IosEntryIffLikelihoodAboveHalf ==
  (phase = "done" /\ Cardinality(ProcessedPoses) = 1) =>
    LET pose == frameLib.poses[1]
    IN  /\ Keys(NativeMap) = {type \in IosTypes : pose[type].inFrameLikelihood >= 6}
        /\ \A type \in IosTypes : pose[type].inFrameLikelihood = 5 => type \notin Keys(NativeMap)
        /\ \A i \in 1..Len(NativeMap) :
             /\ DOMAIN NativeMap[i].point = {"x", "y"}
             /\ NativeMap[i].point.x = pose[NativeMap[i].key].x
             /\ NativeMap[i].point.y = pose[NativeMap[i].key].y
        /\ \A i, j \in 1..Len(NativeMap) : NativeMap[i].key = NativeMap[j].key => i = j

\* the left shoulder just above 0.5 is in the dictionary, the left hip at
\* exactly 0.5 is not
C18_Witness ==
  /\ phase = "done"
  /\ plugin = Some("ios")
  /\ Cardinality(ProcessedPoses) = 1
  /\ frameLib.poses[1]["leftShoulder"].inFrameLikelihood = 6
  /\ frameLib.poses[1]["leftHip"].inFrameLikelihood = 5
  /\ "leftShoulder" \in Keys(NativeMap)
  /\ "leftHip" \notin Keys(NativeMap)

\* C19: the iOS plugin processes the first detected pose only: every entry of
\* the returned dictionary is a landmark of the first pose, at the first
\* pose's position; no landmark of a later pose appears in the result or
\* overwrites one.
C19_OnlyFirstPoseMarshalled ==
  (phase = "done" /\ ~frameLib.error /\ Len(frameLib.poses) > 0) =>
    \A i \in 1..Len(NativeMap) :
      LET first == frameLib.poses[1][NativeMap[i].key]
      IN  /\ first.inFrameLikelihood > LikelihoodThreshold
          /\ NativeMap[i].point = [x |-> first.x, y |-> first.y]


(***************************************************************************)
(* The connection table against the names the plugins emit (Spec).         *)
(***************************************************************************)
\* the vision library detected every landmark in the last frame
AllLandmarksDetected ==
  IF plugin = Some("ios")
    THEN /\ ~frameLib.error
         /\ Len(frameLib.poses) > 0
         /\ \A type \in IosTypes :
              frameLib.poses[1][type].inFrameLikelihood > LikelihoodThreshold
    ELSE frameLib.supplied = AndroidTypes

\* C20: every landmark name that is an endpoint in the connection table is a
\* key the native plugin emits, on Android and on iOS, so that in a frame in
\* which all landmarks are detected every connection is drawn.
C20_EveryConnectionDrawnWhenAllDetected ==
  (Marshalled /\ AllLandmarksDetected /\ fault = "none"
     /\ framePoses = Some(NativeMap)) =>
    /\ \A i \in 1..Len(PoseConnections) :
         /\ PoseConnections[i].points[1] \in Keys(NativeMap)
         /\ PoseConnections[i].points[2] \in Keys(NativeMap)
    /\ Cardinality(LineIndices) = Len(PoseConnections)

====
